---- MODULE Spec2Model ----
(***************************************************************************)
(* Weekly study-time allocator of study-planner-ib.                        *)
(*                                                                         *)
(* Calendar dates ("yyyy-MM-dd" strings in the source) are integers: the   *)
(* number of the day, day 0 being a Monday.  JavaScript Date objects are   *)
(* integers too: hours of LOCAL time since local midnight of day 0.  The   *)
(* two are converted into each other by NewDate (new Date(string), which   *)
(* reads a date-only string as UTC midnight) and Format (date-fns format,  *)
(* which prints the local calendar date).                                  *)
(***************************************************************************)
EXTENDS Integers, Sequences, FiniteSets, TLC

VARIABLES
    tz,                        \* local time minus UTC, in hours (environment)
    now,                       \* new Date(): the current local time
    clock,                     \* Date.now(), as used in session ids
    tasks,                     \* the Dashboard's pending tasks, input order
    exams,                     \* engine.exams (input order)
    studySessionLimitMinutes,  \* engine.studySessionLimitMinutes
    pc,                        \* position of the Dashboard
    run,                       \* number of generations started
    start,                     \* generateWeeklySchedule: start
    engineTasks,               \* this.tasks of the latest engine
    sortedTasks,               \* generateWeeklySchedule: sortedTasks
    ti,                        \* index of the next task of sortedTasks
    ei,                        \* index of the next exam of exams
    sessionTimeUsed,           \* generateWeeklySchedule: sessionTimeUsed
    sessions,                  \* generateWeeklySchedule: sessions
    usedBefore,                \* history: sessionTimeUsed as it was when the
                               \* distribution of each exam started
    newSchedule,               \* generateSchedule: newSchedule
    schedule,                  \* the Dashboard's schedule state
    validation,                \* result of validateSchedule
    prev,                      \* outcome of the previous generation
    db,                        \* the stored sessions of the user's week
    missedCount,               \* number of sessions marked so far
    resched,                   \* the last call of rescheduleMissedSession
    handlers                   \* the calls of handleSessionStatusChange that
                               \* run step by step, each with the schedule
                               \* it was created with

vars == <<tz, now, clock, tasks, exams, studySessionLimitMinutes, pc, run,
          start, engineTasks, sortedTasks, ti, ei, sessionTimeUsed, sessions,
          usedBefore, newSchedule, schedule, validation, prev, db, missedCount,
          resched, handlers>>

-----------------------------------------------------------------------------
(* Bounds of the model *)

MaxTasks == 2
MaxExams == 2
MaxClock == 1
MaxRuns == 2
MaxMissed == 2

(* Input sets *)

TZOffsets == {-5, 0, 7}
RefDays == {0, 3}
Budgets == {60, 480}
\* what can be typed into the budget field of the settings panel
BudgetInputs == {30, 60, 480, 1000}
\* <<deadline, estimatedTime>> of a task
TaskShapes == {<<-1, 30>>, <<2, 480>>, <<9, 30>>, <<9, 480>>}
\* <<date, estimatedTime>> of an exam; 0: the exam has no estimatedTime
ExamShapes == {<<1, 0>>, <<3, 0>>, <<5, 0>>, <<9, 30>>}

(* Program constants *)

DefaultExamMinutes == 240
MinExamDays == 3
WeekLength == 7
LastDayIndex == 6
RescheduleDays == 3

-----------------------------------------------------------------------------
(* Arithmetic helpers *)

Min(a, b) == IF a <= b THEN a ELSE b
Max(a, b) == IF a >= b THEN a ELSE b

\* Math.ceil(a / b) for a >= 0, b > 0
Ceil(a, b) == (a + b - 1) \div b

\* quotient rounded toward zero (full periods of b in a)
TruncDiv(a, b) == IF a >= 0 THEN a \div b ELSE -((-a) \div b)

RECURSIVE SumDurations(_)
SumDurations(seq) ==
    IF seq = <<>> THEN 0 ELSE Head(seq).duration + SumDurations(Tail(seq))

SelectByDate(seq, date) == SelectSeq(seq, LAMBDA s : s.date = date)

-----------------------------------------------------------------------------
(* Dates *)

\* new Date("yyyy-MM-dd"): UTC midnight of that date, seen in local time
NewDate(str) == 24 * str + tz

\* format(date, "yyyy-MM-dd"): the local calendar date
Format(date) == date \div 24

\* addDays(date, n)
AddDays(date, n) == date + 24 * n

\* startOfWeek(date, {weekStartsOn: 1}): local midnight of the Monday on or
\* before the date
StartOfWeek(date) == LET day == date \div 24 IN 24 * (day - (day % WeekLength))

\* differenceInDays(left, right): full days between, rounded toward zero
DifferenceInDays(left, right) == TruncDiv(left - right, 24)

\* the 7 date keys of the window
WindowDates(weekStart) ==
    {Format(AddDays(weekStart, i)) : i \in 0..(WeekLength - 1)}

-----------------------------------------------------------------------------
(* Records *)

NoId == <<"none", 0>>

TaskRecord(i, deadline, minutes) ==
    [id |-> <<"task", i>>, deadline |-> deadline, estimatedTime |-> minutes]

ExamRecord(i, date, minutes) ==
    [id |-> <<"exam", i>>, date |-> date, estimatedTime |-> minutes]

TaskLists ==
    UNION {{[i \in 1..n |-> TaskRecord(i, f[i][1], f[i][2])] :
              f \in [1..n -> TaskShapes]} : n \in 0..MaxTasks}

ExamLists ==
    UNION {{[i \in 1..n |-> ExamRecord(i, f[i][1], f[i][2])] :
              f \in [1..n -> ExamShapes]} : n \in 0..MaxExams}

\* generateSchedule: new Date(e.date) > new Date()
Upcoming(exam) == NewDate(exam.date) > now

Session(id, type, taskId, examId, date, duration, status) ==
    [id |-> id, type |-> type, taskId |-> taskId, examId |-> examId,
     date |-> date, duration |-> duration, status |-> status]

\* `task-${task.id}-${day}-${Date.now()}`, `exam-${exam.id}-${day}-${Date.now()}`,
\* `exam-${exam.id}-${day}-extra-${Date.now()}`; moved collects the
\* "-rescheduled-${day}-${Date.now()}" suffixes
SessionId(src, day, extra, stamp) ==
    [src |-> src, day |-> day, extra |-> extra, stamp |-> stamp, moved |-> <<>>]

RescheduledId(id, day, stamp) ==
    [id EXCEPT !.moved = Append(@, <<day, stamp>>)]

-----------------------------------------------------------------------------
(* SchedulingEngine.sortTasksByDeadline: a stable sort of a copy of the    *)
(* task list by new Date(deadline)                                         *)

\* mutant: a task goes in front of the tasks of the same deadline
RECURSIVE InsertBeforeEqual(_, _)
InsertBeforeEqual(sorted, task) ==
    IF sorted = <<>> THEN <<task>>
    ELSE IF NewDate(task.deadline) - NewDate(Head(sorted).deadline) <= 0
         THEN <<task>> \o sorted
         ELSE <<Head(sorted)>> \o InsertBeforeEqual(Tail(sorted), task)

RECURSIVE InsertByDeadline(_, _)
InsertByDeadline(sorted, task) ==
    IF sorted = <<>> THEN <<task>>
    ELSE IF NewDate(task.deadline) - NewDate(Head(sorted).deadline) < 0
         THEN <<task>> \o sorted
         ELSE <<Head(sorted)>> \o InsertByDeadline(Tail(sorted), task)

RECURSIVE SortFrom(_, _)
SortFrom(list, sorted) ==
    IF list = <<>> THEN sorted
    ELSE SortFrom(Tail(list), InsertByDeadline(sorted, Head(list)))

SortTasksByDeadline(list) == SortFrom(list, <<>>)

\* mutant: this.tasks itself is sorted
ThisTasksSortedInPlace(list) == SortTasksByDeadline(list)

\* this.tasks after sortTasksByDeadline: the sort works on the copy
\* [...this.tasks], the list itself stays as it is
ThisTasksAfterSort(list) == list

-----------------------------------------------------------------------------
(* SchedulingEngine.scheduleTask *)

\* mutant: the tracker of the generation before is kept
StaleTimeUsed(weekStart) ==
    IF DOMAIN sessionTimeUsed = WindowDates(weekStart) THEN sessionTimeUsed
    ELSE [d \in WindowDates(weekStart) |-> 0]

\* the tracker of a new generation: every window date at 0
FreshTimeUsed(weekStart) == [d \in WindowDates(weekStart) |-> 0]

DaysUntil(str, weekStart) == DifferenceInDays(NewDate(str), weekStart)

\* mutant: the loop runs to the end of the week whatever the deadline
LastDayOfWeek(daysUntilDeadline) == LastDayIndex

\* the last day index of the loop of scheduleTask
LastTaskDay(daysUntilDeadline) == Min(daysUntilDeadline, LastDayIndex)

\* mutant: the free minutes of the day are ignored
TimeToAssignAll(remainingMinutes, freeMinutes) == remainingMinutes

\* Math.min(remainingMinutes, freeMinutes)
TimeToAssign(remainingMinutes, freeMinutes) ==
    Min(remainingMinutes, freeMinutes)

\* mutant: a day without free minutes is taken too
HasNoOverrun(freeMinutes) == freeMinutes >= 0

\* if (freeMinutes > 0) of scheduleTask
HasFreeMinutes(freeMinutes) == freeMinutes > 0

RECURSIVE ScheduleTaskFrom(_, _, _, _, _, _, _, _)
ScheduleTaskFrom(task, weekStart, limit, stamp, day, used, remainingMinutes, taskSessions) ==
    IF day > LastTaskDay(DaysUntil(task.deadline, weekStart))
    THEN [used |-> used, sessions |-> taskSessions]
    ELSE
      LET currentDay == Format(AddDays(weekStart, day))
          freeMinutes == limit - used[currentDay]
          timeToAssign == TimeToAssign(remainingMinutes, freeMinutes)
          used2 == IF HasFreeMinutes(freeMinutes)
                   THEN [used EXCEPT ![currentDay] = @ + timeToAssign]
                   ELSE used
          remaining2 == IF HasFreeMinutes(freeMinutes)
                        THEN remainingMinutes - timeToAssign
                        ELSE remainingMinutes
          sessions2 ==
              IF HasFreeMinutes(freeMinutes)
              THEN Append(taskSessions,
                          Session(SessionId(task.id, day, FALSE, stamp),
                                  "homework", task.id, NoId, currentDay,
                                  timeToAssign, "planned"))
              ELSE taskSessions
      IN IF remaining2 <= 0
         THEN [used |-> used2, sessions |-> sessions2]
         ELSE ScheduleTaskFrom(task, weekStart, limit, stamp, day + 1, used2,
                               remaining2, sessions2)

ScheduleTask(task, weekStart, used, limit, stamp) ==
    ScheduleTaskFrom(task, weekStart, limit, stamp, 0, used,
                     task.estimatedTime, <<>>)

-----------------------------------------------------------------------------
(* SchedulingEngine.distributeExamRevision *)

\* exam.estimatedTime || 240
ExamMinutes(exam) ==
    IF exam.estimatedTime = 0 THEN DefaultExamMinutes ELSE exam.estimatedTime

\* Math.min(Math.max(daysUntilExam, 3), 7)
DaysToUse(daysUntilExam) == Min(Max(daysUntilExam, MinExamDays), WeekLength)

\* mutant: the share is rounded down
FlooredShare(minutes, daysToUse) == minutes \div daysToUse

\* Math.ceil(remainingMinutes / daysToUse)
IdealDailyShare(minutes, daysToUse) == Ceil(minutes, daysToUse)

\* Math.min(remainingMinutes, freeMinutes, idealDailyShare)
ShareToAssign(remainingMinutes, freeMinutes, idealDailyShare) ==
    Min(Min(remainingMinutes, freeMinutes), idealDailyShare)

\* mutant: pass 2 assigns nothing
LeftoverNothing(remainingMinutes, freeMinutes) == 0

\* pass 2: Math.min(remainingMinutes, freeMinutes)
LeftoverToAssign(remainingMinutes, freeMinutes) ==
    Min(remainingMinutes, freeMinutes)

\* mutant: the session of the day is never found
FindNothing(list, exam, currentDay) == 0

\* sessions.find((s) => s.date === currentDay): index of the first match, or 0
FindSession(list, exam, currentDay) ==
    IF \E k \in 1..Len(list) : list[k].date = currentDay
    THEN CHOOSE k \in 1..Len(list) :
            /\ list[k].date = currentDay
            /\ \A j \in 1..(k - 1) : list[j].date # currentDay
    ELSE 0

RECURSIVE ExamPass1(_, _, _, _, _, _, _, _, _, _)
ExamPass1(exam, weekStart, limit, stamp, daysToUse, idealDailyShare, day, used, remainingMinutes, list) ==
    IF ~(day < daysToUse /\ day < WeekLength)
    THEN [used |-> used, sessions |-> list, remaining |-> remainingMinutes]
    ELSE
      LET currentDay == Format(AddDays(weekStart, day))
          freeMinutes == limit - used[currentDay]
          timeToAssign ==
              ShareToAssign(remainingMinutes, freeMinutes, idealDailyShare)
          assign == freeMinutes > 0 /\ timeToAssign > 0
          used2 == IF assign
                   THEN [used EXCEPT ![currentDay] = @ + timeToAssign]
                   ELSE used
          remaining2 == IF assign THEN remainingMinutes - timeToAssign
                        ELSE remainingMinutes
          list2 ==
              IF assign
              THEN Append(list,
                          Session(SessionId(exam.id, day, FALSE, stamp),
                                  "exam_revision", NoId, exam.id, currentDay,
                                  timeToAssign, "planned"))
              ELSE list
      IN IF remaining2 <= 0
         THEN [used |-> used2, sessions |-> list2, remaining |-> remaining2]
         ELSE ExamPass1(exam, weekStart, limit, stamp, daysToUse,
                        idealDailyShare, day + 1, used2, remaining2, list2)

\* mutant: pass 2 does not count the minutes it assigns
AddNoTimeUsed(used, currentDay, timeToAssign) == used

\* pass 2: sessionTimeUsed[currentDay] += timeToAssign
AddTimeUsed(used, currentDay, timeToAssign) ==
    [used EXCEPT ![currentDay] = @ + timeToAssign]

RECURSIVE ExamPass2(_, _, _, _, _, _, _, _, _)
ExamPass2(exam, weekStart, limit, stamp, daysToUse, day, used, remainingMinutes, list) ==
    IF ~(day < daysToUse /\ day < WeekLength)
    THEN [used |-> used, sessions |-> list, remaining |-> remainingMinutes]
    ELSE
      LET currentDay == Format(AddDays(weekStart, day))
          freeMinutes == limit - used[currentDay]
          timeToAssign == LeftoverToAssign(remainingMinutes, freeMinutes)
          existingSession == FindSession(list, exam, currentDay)
          list2 ==
              IF freeMinutes <= 0 THEN list
              ELSE IF existingSession # 0
              THEN [list EXCEPT ![existingSession].duration = @ + timeToAssign]
              ELSE Append(list,
                          Session(SessionId(exam.id, day, TRUE, stamp),
                                  "exam_revision", NoId, exam.id, currentDay,
                                  timeToAssign, "planned"))
          used2 == IF freeMinutes > 0
                   THEN AddTimeUsed(used, currentDay, timeToAssign)
                   ELSE used
          remaining2 == IF freeMinutes > 0
                        THEN remainingMinutes - timeToAssign
                        ELSE remainingMinutes
      IN IF remaining2 <= 0
         THEN [used |-> used2, sessions |-> list2, remaining |-> remaining2]
         ELSE ExamPass2(exam, weekStart, limit, stamp, daysToUse, day + 1,
                        used2, remaining2, list2)

\* mutant: the exam's sessions are kept in the list of all the sessions
SharedSessionList == sessions

\* const sessions = []: the list of the sessions of the exam, local to the
\* call
NewSessionList == <<>>

DistributeExamRevision(exam, weekStart, used, limit, stamp) ==
    LET daysUntilExam == DaysUntil(exam.date, weekStart)
        daysToUse == DaysToUse(daysUntilExam)
        idealDailyShare == IdealDailyShare(ExamMinutes(exam), daysToUse)
        p1 == ExamPass1(exam, weekStart, limit, stamp, daysToUse,
                        idealDailyShare, 0, used, ExamMinutes(exam),
                        NewSessionList)
        p2 == IF p1.remaining > 0
              THEN ExamPass2(exam, weekStart, limit, stamp, daysToUse, 0,
                             p1.used, p1.remaining, p1.sessions)
              ELSE p1
    IN IF daysUntilExam < 0
       THEN [used |-> used, sessions |-> <<>>]
       ELSE [used |-> p2.used, sessions |-> p2.sessions]

-----------------------------------------------------------------------------
(* SchedulingEngine.calculateSessionTimeUsed, rescheduleMissedSession *)

CalculateSessionTimeUsed(list) ==
    [d \in {list[k].date : k \in DOMAIN list} |->
        SumDurations(SelectByDate(list, d))]

\* sessionTimeUsed[targetDate] || 0
UsedOrZero(timeUsed, date) ==
    IF date \in DOMAIN timeUsed THEN timeUsed[date] ELSE 0

\* format(addDays(currentDate, day), "yyyy-MM-dd")
TargetDate(currentDate, day) == Format(AddDays(currentDate, day))

\* mutant: the free minutes of the target date are ignored
MissedToAssignAll(remainingMinutes, freeMinutes) == remainingMinutes

\* Math.min(remainingMinutes, freeMinutes) of rescheduleMissedSession
MissedToAssign(remainingMinutes, freeMinutes) ==
    Min(remainingMinutes, freeMinutes)

RECURSIVE RescheduleFrom(_, _, _, _, _, _, _, _)
RescheduleFrom(missedSession, currentDate, limit, stamp, day, used, remainingMinutes, newSessions) ==
    IF day > RescheduleDays THEN newSessions
    ELSE
      LET targetDate == TargetDate(currentDate, day)
          freeMinutes == limit - UsedOrZero(used, targetDate)
          timeToAssign == MissedToAssign(remainingMinutes, freeMinutes)
          used2 ==
              IF freeMinutes > 0
              THEN [d \in DOMAIN used \cup {targetDate} |->
                       IF d = targetDate
                       THEN UsedOrZero(used, targetDate) + timeToAssign
                       ELSE used[d]]
              ELSE used
          remaining2 == IF freeMinutes > 0
                        THEN remainingMinutes - timeToAssign
                        ELSE remainingMinutes
          new2 ==
              IF freeMinutes > 0
              THEN Append(newSessions,
                          [missedSession EXCEPT
                              !.id = RescheduledId(@, day, stamp),
                              !.date = targetDate,
                              !.duration = timeToAssign,
                              !.status = "rescheduled"])
              ELSE newSessions
      IN IF remaining2 <= 0 THEN new2
         ELSE RescheduleFrom(missedSession, currentDate, limit, stamp,
                             day + 1, used2, remaining2, new2)

\* the missed session after rescheduleMissedSession: every new session is
\* a copy {...missedSession, id, date, duration, status}
MissedSessionAfter(missedSession, newSessions) == missedSession

\* the existing sessions after rescheduleMissedSession:
\* calculateSessionTimeUsed only reads their date and duration
ExistingSessionsAfter(existingSessions) == existingSessions

RescheduleMissedSession(missedSession, currentDate, existingSessions, limit, stamp) ==
    RescheduleFrom(missedSession, currentDate, limit, stamp, 1,
                   CalculateSessionTimeUsed(existingSessions),
                   missedSession.duration, <<>>)

-----------------------------------------------------------------------------
(* SchedulingEngine.formatSchedule *)

Bucket(list, date) ==
    [date |-> date,
     sessions |-> SelectByDate(list, date),
     totalMinutes |-> SumDurations(SelectByDate(list, date))]

\* mutant: the loop over the days stops one day early
FormatSixDays(list, weekStart) ==
    [date \in WindowDates(weekStart) \ {Format(AddDays(weekStart, 6))} |->
        Bucket(list, date)]

FormatSchedule(list, weekStart) ==
    [date \in WindowDates(weekStart) |-> Bucket(list, date)]

\* Object.values(schedule).flatMap((day) => day.sessions)
RECURSIVE FlatFrom(_, _)
FlatFrom(sched, dates) ==
    IF dates = {} THEN <<>>
    ELSE LET d == CHOOSE x \in dates : \A y \in dates : x <= y
         IN sched[d].sessions \o FlatFrom(sched, dates \ {d})

AllSessions(sched) == FlatFrom(sched, DOMAIN sched)

-----------------------------------------------------------------------------
(* SchedulingEngine.validateSchedule *)

\* mutant: the whole required time is reported as missing
MissingAll(required, scheduledMinutes) == required

\* task.estimatedTime - scheduledMinutes, totalNeeded - scheduledMinutes
MissingMinutes(required, scheduledMinutes) == required - scheduledMinutes

TaskSessions(all, task) == SelectSeq(all, LAMBDA s : s.taskId = task.id)
ExamSessions(all, exam) == SelectSeq(all, LAMBDA s : s.examId = exam.id)

RECURSIVE TaskShortfalls(_, _)
TaskShortfalls(all, list) ==
    IF list = <<>> THEN <<>>
    ELSE LET task == Head(list)
             scheduledMinutes == SumDurations(TaskSessions(all, task))
         IN (IF scheduledMinutes < task.estimatedTime
             THEN <<[id |-> task.id, type |-> "homework",
                     missingMinutes |->
                         MissingMinutes(task.estimatedTime, scheduledMinutes)]>>
             ELSE <<>>) \o TaskShortfalls(all, Tail(list))

RECURSIVE ExamShortfalls(_, _)
ExamShortfalls(all, list) ==
    IF list = <<>> THEN <<>>
    ELSE LET exam == Head(list)
             scheduledMinutes == SumDurations(ExamSessions(all, exam))
             totalNeeded == ExamMinutes(exam)
         IN (IF scheduledMinutes < totalNeeded
             THEN <<[id |-> exam.id, type |-> "exam_revision",
                     missingMinutes |->
                         MissingMinutes(totalNeeded, scheduledMinutes)]>>
             ELSE <<>>) \o ExamShortfalls(all, Tail(list))

\* isBefore(new Date(session.date), new Date(task.deadline)) ||
\* format(new Date(session.date)) === format(new Date(task.deadline))
OnOrBeforeDeadline(session, task) ==
    \/ NewDate(session.date) < NewDate(task.deadline)
    \/ Format(NewDate(session.date)) = Format(NewDate(task.deadline))

NoDeadlineViolations(all, taskList) ==
    \A i \in DOMAIN taskList :
        LET taskSessions == TaskSessions(all, taskList[i])
        IN /\ Len(taskSessions) # 0
           /\ \A k \in DOMAIN taskSessions :
                  OnOrBeforeDeadline(taskSessions[k], taskList[i])

ExamDistribution(all, examList) ==
    \A i \in DOMAIN examList :
        Len(ExamSessions(all, examList[i])) >= MinExamDays

StudySessionLimitRespected(sched, limit) ==
    \A d \in DOMAIN sched : sched[d].totalMinutes <= limit

ValidateSchedule(sched, taskList, examList, limit) ==
    LET allSessions == AllSessions(sched)
        unscheduledItems == TaskShortfalls(allSessions, taskList)
                              \o ExamShortfalls(allSessions, examList)
        details ==
            [allTasksScheduled |-> Len(unscheduledItems) = 0,
             noDeadlineViolations |->
                 NoDeadlineViolations(allSessions, taskList),
             examDistribution |-> ExamDistribution(allSessions, examList),
             studySessionLimitRespected |->
                 StudySessionLimitRespected(sched, limit)]
    IN [isValid |-> /\ details.allTasksScheduled
                    /\ details.noDeadlineViolations
                    /\ details.examDistribution
                    /\ details.studySessionLimitRespected,
        details |-> details,
        unscheduledItems |-> unscheduledItems]

-----------------------------------------------------------------------------
(* The stored sessions (scheduleService) *)

\* batch.set(doc(db, "sessions", session.id), ...) for each session
RECURSIVE SetDocs(_, _)
SetDocs(docs, list) ==
    IF list = <<>> THEN docs
    ELSE LET s == Head(list)
             kept == SelectSeq(docs, LAMBDA x : x.id # s.id)
         IN SetDocs(Append(kept, s), Tail(list))

\* mutant: the status is not stored
KeepDocStatus(docs, sessionId, status) == docs

\* updateDoc(doc(db, "sessions", sessionId), {status})
UpdateDocStatus(docs, sessionId, status) ==
    [k \in DOMAIN docs |->
        IF docs[k].id = sessionId THEN [docs[k] EXCEPT !.status = status]
        ELSE docs[k]]

\* Dashboard.loadData: the sessions grouped by their date
LoadSchedule(docs) ==
    [date \in {docs[k].date : k \in DOMAIN docs} |-> Bucket(docs, date)]

\* Dashboard.handleSessionStatusChange: the local copy with the status set
UpdatedSchedule(sched, sessionId, status) ==
    [date \in DOMAIN sched |->
        [sched[date] EXCEPT !.sessions =
            [k \in DOMAIN @ |->
                IF @[k].id = sessionId THEN [@[k] EXCEPT !.status = status]
                ELSE @[k]]]]

-----------------------------------------------------------------------------
(* Initial state: the Dashboard has loaded the user's tasks and exams and  *)
(* no schedule is stored                                                   *)

NoSession == Session(SessionId(NoId, 0, FALSE, 0), "none", NoId, NoId, 0, 0,
                     "none")

NoValidation ==
    [isValid |-> FALSE,
     details |-> [allTasksScheduled |-> FALSE, noDeadlineViolations |-> FALSE,
                  examDistribution |-> FALSE,
                  studySessionLimitRespected |-> FALSE],
     unscheduledItems |-> <<>>]

NoRun == [done |-> FALSE, tasks |-> <<>>, exams |-> <<>>, start |-> 0,
          schedule |-> <<>>]

NoReschedule == [called |-> FALSE, missed |-> NoSession, existing |-> <<>>,
                 result |-> <<>>, missedAfter |-> NoSession,
                 existingAfter |-> <<>>]

Init ==
    /\ tz \in TZOffsets
    /\ now \in {24 * d + 9 : d \in RefDays}
    /\ clock = 0
    /\ tasks \in TaskLists
    /\ exams \in {list \in ExamLists :
                    \A i \in DOMAIN list : Upcoming(list[i])}
    /\ studySessionLimitMinutes \in Budgets
    /\ pc = "idle"
    /\ run = 0
    /\ start = 0
    /\ engineTasks = <<>>
    /\ sortedTasks = <<>>
    /\ ti = 1
    /\ ei = 1
    /\ sessionTimeUsed = <<>>
    /\ sessions = <<>>
    /\ usedBefore = <<>>
    /\ newSchedule = <<>>
    /\ schedule = <<>>
    /\ validation = NoValidation
    /\ prev = NoRun
    /\ db = <<>>
    /\ missedCount = 0
    /\ resched = NoReschedule
    /\ handlers = {}

-----------------------------------------------------------------------------
(* Actions *)

\* time passes between two generations
Tick ==
    /\ pc = "ready"
    /\ clock < MaxClock
    /\ clock' = clock + 1
    /\ UNCHANGED <<handlers, usedBefore, tz, now, tasks, exams,
                   studySessionLimitMinutes, pc, run, start, engineTasks,
                   sortedTasks, ti, ei, sessionTimeUsed, sessions,
                   newSchedule, schedule, validation, prev, db, missedCount,
                   resched>>

\* the head of generateWeeklySchedule: the window start, a zeroed tracker,
\* an empty session list and the sorted tasks
EnterGenerate ==
    /\ run' = run + 1
    /\ start' = StartOfWeek(now)
    /\ sessions' = <<>>
    /\ usedBefore' = <<>>
    /\ sessionTimeUsed' = FreshTimeUsed(StartOfWeek(now))
    /\ engineTasks' = ThisTasksAfterSort(tasks)
    /\ sortedTasks' = SortTasksByDeadline(tasks)
    /\ ti' = 1
    /\ ei' = 1
    /\ pc' = "generating"

\* Dashboard.generateSchedule up to the head of generateWeeklySchedule: a new
\* engine over the pending tasks and the upcoming exams
StartGenerate ==
    /\ pc = "idle"
    /\ ~(Len(tasks) = 0 /\ Len(exams) = 0)
    /\ EnterGenerate
    /\ UNCHANGED <<handlers, tz, now, clock, tasks, exams, studySessionLimitMinutes,
                   newSchedule, schedule, validation, prev, db, missedCount,
                   resched>>

\* Dashboard.generateSchedule once more, over the same tasks and either the
\* same exams or none of them (no exam is upcoming any more); the outcome
\* of the generation before is kept for comparison
Regenerate ==
    /\ pc = "ready"
    /\ run < MaxRuns
    /\ missedCount = 0
    /\ \E upcomingExams \in {exams, <<>>} :
          /\ ~(Len(tasks) = 0 /\ Len(upcomingExams) = 0)
          /\ exams' = upcomingExams
    /\ prev' = [done |-> TRUE, tasks |-> engineTasks, exams |-> exams,
                start |-> start, schedule |-> newSchedule]
    /\ EnterGenerate
    /\ UNCHANGED <<handlers, tz, now, clock, tasks, studySessionLimitMinutes,
                   newSchedule, schedule, validation, db, missedCount, resched>>

\* engine.generateWeeklySchedule() once more on the engine of the last
\* generation: this.tasks and this.exams are what the call before left
GenerateAgain ==
    /\ pc = "ready"
    /\ run < MaxRuns
    /\ missedCount = 0
    /\ prev' = [done |-> TRUE, tasks |-> engineTasks, exams |-> exams,
                start |-> start, schedule |-> newSchedule]
    /\ run' = run + 1
    /\ start' = StartOfWeek(now)
    /\ sessions' = <<>>
    /\ usedBefore' = <<>>
    /\ sessionTimeUsed' = FreshTimeUsed(StartOfWeek(now))
    /\ engineTasks' = ThisTasksAfterSort(engineTasks)
    /\ sortedTasks' = SortTasksByDeadline(engineTasks)
    /\ ti' = 1
    /\ ei' = 1
    /\ pc' = "generating"
    /\ UNCHANGED <<handlers, tz, now, clock, tasks, exams, studySessionLimitMinutes,
                   newSchedule, schedule, validation, db, missedCount, resched>>

\* TaskForm.validate: a deadline before today is refused
DeadlineAccepted(deadline) == ~(NewDate(deadline) < 24 * (now \div 24))

\* Dashboard.handleTaskCreated: the task of the form is appended to the tasks
TaskCreated ==
    /\ pc \in {"idle", "ready"}
    /\ Len(tasks) < MaxTasks
    /\ \E shape \in TaskShapes :
          /\ DeadlineAccepted(shape[1])
          /\ tasks' = Append(tasks,
                             TaskRecord(Len(tasks) + 1, shape[1], shape[2]))
    /\ UNCHANGED <<handlers, tz, now, clock, exams, studySessionLimitMinutes, pc, run,
                   start, engineTasks, sortedTasks, ti, ei, sessionTimeUsed,
                   sessions, usedBefore, newSchedule, schedule, validation,
                   prev, db, missedCount, resched>>

\* mutant: the exams are distributed before the tasks are scheduled
TasksAfterExams(taskIndex, taskCount, examIndex, examCount) ==
    examIndex > examCount /\ taskIndex <= taskCount

\* which loop of generateWeeklySchedule runs next: the tasks come first
TasksPending(taskIndex, taskCount, examIndex, examCount) ==
    taskIndex <= taskCount

\* one iteration of "for (const task of sortedTasks)"
ScheduleNextTask ==
    /\ pc = "generating"
    /\ ti <= Len(sortedTasks)
    /\ TasksPending(ti, Len(sortedTasks), ei, Len(exams))
    /\ LET r == ScheduleTask(sortedTasks[ti], start, sessionTimeUsed,
                             studySessionLimitMinutes, clock)
       IN /\ sessionTimeUsed' = r.used
          /\ sessions' = sessions \o r.sessions
    /\ ti' = ti + 1
    /\ UNCHANGED <<handlers, usedBefore, tz, now, clock, tasks, exams,
                   studySessionLimitMinutes, pc, run, start, engineTasks,
                   sortedTasks, ei, newSchedule, schedule, validation, prev,
                   db, missedCount, resched>>

\* one iteration of "for (const exam of this.exams)"
DistributeNextExam ==
    /\ pc = "generating"
    /\ ei <= Len(exams)
    /\ ~TasksPending(ti, Len(sortedTasks), ei, Len(exams))
    /\ LET r == DistributeExamRevision(exams[ei], start, sessionTimeUsed,
                                       studySessionLimitMinutes, clock)
       IN /\ sessionTimeUsed' = r.used
          /\ sessions' = sessions \o r.sessions
    /\ usedBefore' = Append(usedBefore, sessionTimeUsed)
    /\ ei' = ei + 1
    /\ UNCHANGED <<handlers, tz, now, clock, tasks, exams, studySessionLimitMinutes, pc,
                   run, start, engineTasks, sortedTasks, ti, newSchedule,
                   schedule, validation, prev, db, missedCount, resched>>

\* return this.formatSchedule(sessions, start)
ReturnSchedule ==
    /\ pc = "generating"
    /\ ti > Len(sortedTasks)
    /\ ei > Len(exams)
    /\ newSchedule' = FormatSchedule(sessions, start)
    /\ pc' = "generated"
    /\ UNCHANGED <<handlers, usedBefore, tz, now, clock, tasks, exams,
                   studySessionLimitMinutes, run, start, engineTasks,
                   sortedTasks, ti, ei, sessionTimeUsed, sessions, schedule,
                   validation, prev, db, missedCount, resched>>

\* engine.validateSchedule(newSchedule)
Validate ==
    /\ pc = "generated"
    /\ validation' = ValidateSchedule(newSchedule, engineTasks, exams,
                                      studySessionLimitMinutes)
    /\ pc' = "validated"
    /\ UNCHANGED <<handlers, usedBefore, tz, now, clock, tasks, exams,
                   studySessionLimitMinutes, run, start, engineTasks,
                   sortedTasks, ti, ei, sessionTimeUsed, sessions,
                   newSchedule, schedule, prev, db, missedCount, resched>>

\* scheduleService.saveSchedule, then setSchedule(newSchedule)
SaveSchedule ==
    /\ pc = "validated"
    /\ db' = SetDocs(<<>>, AllSessions(newSchedule))
    /\ schedule' = newSchedule
    /\ pc' = "ready"
    /\ UNCHANGED <<handlers, usedBefore, tz, now, clock, tasks, exams,
                   studySessionLimitMinutes, run, start, engineTasks,
                   sortedTasks, ti, ei, sessionTimeUsed, sessions,
                   newSchedule, validation, prev, missedCount, resched>>

\* scheduleService.saveSchedule up to its first await: clearWeekSchedule
\* has committed the deletion of the stored sessions of the week
ClearWeekSchedule ==
    /\ pc = "validated"
    /\ db' = <<>>
    /\ pc' = "cleared"
    /\ UNCHANGED <<handlers, usedBefore, tz, now, clock, tasks, exams,
                   studySessionLimitMinutes, run, start, engineTasks,
                   sortedTasks, ti, ei, sessionTimeUsed, sessions,
                   newSchedule, schedule, validation, prev, missedCount,
                   resched>>

\* the rest of saveSchedule: the batch of the new sessions is committed,
\* then setSchedule(newSchedule)
CommitSchedule ==
    /\ pc = "cleared"
    /\ db' = SetDocs(db, AllSessions(newSchedule))
    /\ schedule' = newSchedule
    /\ pc' = "ready"
    /\ UNCHANGED <<handlers, usedBefore, tz, now, clock, tasks, exams,
                   studySessionLimitMinutes, run, start, engineTasks,
                   sortedTasks, ti, ei, sessionTimeUsed, sessions,
                   newSchedule, validation, prev, missedCount, resched>>

\* a request to the store fails, in clearWeekSchedule or in batch.commit():
\* saveSchedule throws, generateSchedule reports the failure and leaves the
\* schedule as it is
SaveFails ==
    /\ pc \in {"validated", "cleared"}
    /\ pc' = "failed"
    /\ UNCHANGED <<handlers, usedBefore, tz, now, clock, tasks, exams,
                   studySessionLimitMinutes, run, start, engineTasks,
                   sortedTasks, ti, ei, sessionTimeUsed, sessions,
                   newSchedule, schedule, validation, prev, db, missedCount,
                   resched>>

\* the session with the given id (the last one, were there several)
RECURSIVE FindById(_, _)
FindById(list, sessionId) ==
    IF Len(list) = 0 THEN NoSession
    ELSE IF list[Len(list)].id = sessionId THEN list[Len(list)]
    ELSE FindById(SubSeq(list, 1, Len(list) - 1), sessionId)

\* the planned sessions the user can click
PlannedIds(sched) ==
    UNION {{sched[d].sessions[k].id :
              k \in {n \in DOMAIN sched[d].sessions :
                       sched[d].sessions[n].status = "planned"}} :
           d \in DOMAIN sched}

\* Dashboard.handleSessionStatusChange(sessionId, "missed"): the status is
\* stored, the session is rescheduled from the local sessions, and when new
\* sessions result they are stored and the data is loaded again
MarkMissed ==
    /\ pc = "ready"
    /\ missedCount < MaxMissed
    /\ \E sessionId \in PlannedIds(schedule) :
          LET updatedSchedule == UpdatedSchedule(schedule, sessionId, "missed")
              allSessions == AllSessions(updatedSchedule)
              missedSession == FindById(allSessions, sessionId)
              rescheduledSessions ==
                  RescheduleMissedSession(missedSession,
                                          NewDate(missedSession.date),
                                          allSessions,
                                          studySessionLimitMinutes, clock)
              stored == SetDocs(UpdateDocStatus(db, sessionId, "missed"),
                                rescheduledSessions)
          IN /\ resched' = [called |-> TRUE, missed |-> missedSession,
                            existing |-> allSessions,
                            result |-> rescheduledSessions,
                            missedAfter |->
                                MissedSessionAfter(missedSession,
                                                   rescheduledSessions),
                            existingAfter |->
                                ExistingSessionsAfter(allSessions)]
             /\ db' = stored
             /\ IF Len(rescheduledSessions) > 0
                THEN /\ schedule' = LoadSchedule(stored)
                     /\ validation' =
                            ValidateSchedule(LoadSchedule(stored), tasks,
                                             exams, studySessionLimitMinutes)
                ELSE /\ schedule' = updatedSchedule
                     /\ UNCHANGED validation
    /\ missedCount' = missedCount + 1
    /\ UNCHANGED <<handlers, usedBefore, tz, now, clock, tasks, exams,
                   studySessionLimitMinutes, pc, run, start, engineTasks,
                   sortedTasks, ti, ei, sessionTimeUsed, sessions,
                   newSchedule, prev>>

\* Dashboard.handleSessionStatusChange(sessionId, "completed"): the status
\* is stored and set in the schedule; nothing is rescheduled or loaded
MarkCompleted ==
    /\ pc = "ready"
    /\ missedCount < MaxMissed
    /\ \E sessionId \in PlannedIds(schedule) :
          /\ db' = UpdateDocStatus(db, sessionId, "completed")
          /\ schedule' = UpdatedSchedule(schedule, sessionId, "completed")
    /\ missedCount' = missedCount + 1
    /\ UNCHANGED <<handlers, tz, now, clock, tasks, exams,
                   studySessionLimitMinutes, pc, run, start, engineTasks,
                   sortedTasks, ti, ei, sessionTimeUsed, sessions, usedBefore,
                   newSchedule, validation, prev, resched>>

\* ScheduleGenerator.handleBudgetInputChange: any number typed becomes the
\* Dashboard's dailyBudget
BudgetInputChange ==
    /\ pc = "idle"
    /\ \E value \in BudgetInputs :
          /\ value # studySessionLimitMinutes
          /\ studySessionLimitMinutes' = value
    /\ UNCHANGED <<handlers, tz, now, clock, tasks, exams, pc, run, start, engineTasks,
                   sortedTasks, ti, ei, sessionTimeUsed, sessions, usedBefore,
                   newSchedule, schedule, validation, prev, db, missedCount,
                   resched>>

\* useSchedule.updateSessionStatus(sessionId, "missed"): the status is stored
\* and set in the schedule state
HookMarkMissed ==
    /\ pc = "ready"
    /\ missedCount < MaxMissed
    /\ \E sessionId \in PlannedIds(schedule) :
          /\ db' = UpdateDocStatus(db, sessionId, "missed")
          /\ schedule' = UpdatedSchedule(schedule, sessionId, "missed")
    /\ missedCount' = missedCount + 1
    /\ UNCHANGED <<handlers, tz, now, clock, tasks, exams, studySessionLimitMinutes, pc,
                   run, start, engineTasks, sortedTasks, ti, ei,
                   sessionTimeUsed, sessions, usedBefore, newSchedule,
                   validation, prev, resched>>

\* the schedule held by a handler after one of them has set the status in
\* the sessions of its own: updatedSchedule = {...schedule} is a
\* shallow copy, the day objects are shared
SharedDaysUpdated(h, sessionId, status) ==
    [h EXCEPT !.schedule = UpdatedSchedule(@, sessionId, status)]

\* handleSessionStatusChange(sessionId, "missed") up to its first await: the
\* handler holds the schedule of the render it was created in, and the
\* status is stored
BeginMarkMissed ==
    /\ pc = "ready"
    /\ missedCount < MaxMissed
    /\ \E sessionId \in PlannedIds(schedule) :
          /\ \A h \in handlers : h.sessionId # sessionId
          /\ db' = UpdateDocStatus(db, sessionId, "missed")
          /\ handlers' = handlers \cup {[sessionId |-> sessionId,
                                         schedule |-> schedule,
                                         stage |-> "started"]}
    /\ missedCount' = missedCount + 1
    /\ UNCHANGED <<tz, now, clock, tasks, exams, studySessionLimitMinutes, pc,
                   run, start, engineTasks, sortedTasks, ti, ei,
                   sessionTimeUsed, sessions, usedBefore, newSchedule,
                   schedule, validation, prev, resched>>

\* the handler after updateSessionStatus has returned: the status is set in
\* the schedule it holds, the session is rescheduled from those sessions,
\* and the new sessions are handed to addSessions
RescheduleFromSnapshot ==
    /\ \E h \in handlers :
          /\ h.stage = "started"
          /\ LET sessionId == h.sessionId
                 updatedSchedule ==
                     UpdatedSchedule(h.schedule, sessionId, "missed")
                 allSessions == AllSessions(updatedSchedule)
                 missedSession == FindById(allSessions, sessionId)
                 rescheduledSessions ==
                     RescheduleMissedSession(missedSession,
                                             NewDate(missedSession.date),
                                             allSessions,
                                             studySessionLimitMinutes, clock)
                 stage == IF Len(rescheduledSessions) > 0 THEN "added"
                          ELSE "done"
             IN /\ schedule' = updatedSchedule
                /\ resched' = [called |-> TRUE, missed |-> missedSession,
                               existing |-> allSessions,
                               result |-> rescheduledSessions,
                               missedAfter |->
                                   MissedSessionAfter(missedSession,
                                                      rescheduledSessions),
                               existingAfter |->
                                   ExistingSessionsAfter(allSessions)]
                /\ db' = SetDocs(db, rescheduledSessions)
                /\ handlers' =
                       {SharedDaysUpdated(
                            IF g = h THEN [g EXCEPT !.stage = stage] ELSE g,
                            sessionId, "missed") : g \in handlers}
    /\ UNCHANGED <<tz, now, clock, tasks, exams, studySessionLimitMinutes, pc,
                   run, start, engineTasks, sortedTasks, ti, ei,
                   sessionTimeUsed, sessions, usedBefore, newSchedule,
                   validation, prev, missedCount>>

\* the handler after addSessions has returned: loadData reads the stored
\* sessions, sets the schedule and validates it
ReloadAfterReschedule ==
    /\ \E h \in handlers :
          /\ h.stage = "added"
          /\ handlers' = (handlers \ {h}) \cup {[h EXCEPT !.stage = "done"]}
    /\ schedule' = LoadSchedule(db)
    /\ validation' = ValidateSchedule(LoadSchedule(db), tasks, exams,
                                      studySessionLimitMinutes)
    /\ UNCHANGED <<tz, now, clock, tasks, exams, studySessionLimitMinutes, pc,
                   run, start, engineTasks, sortedTasks, ti, ei,
                   sessionTimeUsed, sessions, usedBefore, newSchedule, prev,
                   db, missedCount, resched>>

Next ==
    \/ StartGenerate
    \/ ScheduleNextTask
    \/ DistributeNextExam
    \/ ReturnSchedule
    \/ Validate
    \/ SaveSchedule

Spec == Init /\ [][Next]_vars

\* generation followed by the marking of sessions
NextMissed ==
    \/ StartGenerate
    \/ ScheduleNextTask
    \/ DistributeNextExam
    \/ ReturnSchedule
    \/ Validate
    \/ SaveSchedule
    \/ MarkMissed

SpecMissed == Init /\ [][NextMissed]_vars

\* generation followed by the marking of sessions, in the Dashboard or
\* through the hook
NextHook ==
    \/ StartGenerate
    \/ ScheduleNextTask
    \/ DistributeNextExam
    \/ ReturnSchedule
    \/ Validate
    \/ SaveSchedule
    \/ MarkMissed
    \/ HookMarkMissed

SpecHook == Init /\ [][NextHook]_vars

\* generation after the daily budget was set in the settings panel
NextBudget ==
    \/ BudgetInputChange
    \/ StartGenerate
    \/ ScheduleNextTask
    \/ DistributeNextExam
    \/ ReturnSchedule
    \/ Validate
    \/ SaveSchedule

SpecBudget == Init /\ [][NextBudget]_vars

\* generation followed by further generations
NextTwice ==
    \/ StartGenerate
    \/ ScheduleNextTask
    \/ DistributeNextExam
    \/ ReturnSchedule
    \/ Validate
    \/ SaveSchedule
    \/ Tick
    \/ Regenerate

SpecTwice == Init /\ [][NextTwice]_vars

\* generation, a task added, and a further generation
NextCreated ==
    \/ StartGenerate
    \/ ScheduleNextTask
    \/ DistributeNextExam
    \/ ReturnSchedule
    \/ Validate
    \/ SaveSchedule
    \/ TaskCreated
    \/ Regenerate

SpecCreated == Init /\ [][NextCreated]_vars

\* generation, a second call on the same engine, and the marking of sessions
NextFrame ==
    \/ StartGenerate
    \/ ScheduleNextTask
    \/ DistributeNextExam
    \/ ReturnSchedule
    \/ Validate
    \/ SaveSchedule
    \/ GenerateAgain
    \/ MarkMissed

SpecFrame == Init /\ [][NextFrame]_vars

\* generation followed by the marking of sessions, the handlers running
\* step by step and overlapping
NextOverlap ==
    \/ StartGenerate
    \/ ScheduleNextTask
    \/ DistributeNextExam
    \/ ReturnSchedule
    \/ Validate
    \/ SaveSchedule
    \/ BeginMarkMissed
    \/ RescheduleFromSnapshot
    \/ ReloadAfterReschedule

\* generation followed by the marking of sessions as completed or missed
NextStatus ==
    \/ StartGenerate
    \/ ScheduleNextTask
    \/ DistributeNextExam
    \/ ReturnSchedule
    \/ Validate
    \/ SaveSchedule
    \/ MarkCompleted
    \/ MarkMissed

SpecStatus == Init /\ [][NextStatus]_vars

\* generations whose saving runs request by request and may fail
NextSave ==
    \/ StartGenerate
    \/ ScheduleNextTask
    \/ DistributeNextExam
    \/ ReturnSchedule
    \/ Validate
    \/ ClearWeekSchedule
    \/ CommitSchedule
    \/ SaveFails
    \/ Regenerate

SpecSave == Init /\ [][NextSave]_vars

\* the initial states of a runtime in UTC, where new Date(string) and the
\* local calendar agree
InitUTC == Init /\ tz = 0

SpecOverlap == InitUTC /\ [][NextOverlap]_vars

-----------------------------------------------------------------------------
(* Properties *)

\* generateWeeklySchedule has returned newSchedule
Generated == pc \in {"generated", "validated", "ready"}

Produced == AllSessions(newSchedule)

HomeworkSessions(list) == SelectSeq(list, LAMBDA s : s.type = "homework")
RevisionSessions(list) == SelectSeq(list, LAMBDA s : s.type = "exam_revision")

\* C1: every one of the 7 daily buckets returned by generateWeeklySchedule
\* has totalMinutes <= the daily budget, and validateSchedule reports
\* studySessionLimitRespected = TRUE on it.
DailyBudgetRespected ==
    /\ Generated =>
          /\ Cardinality(DOMAIN newSchedule) = WeekLength
          /\ \A d \in DOMAIN newSchedule :
                newSchedule[d].totalMinutes <= studySessionLimitMinutes
    /\ pc = "validated" => validation.details.studySessionLimitRespected

\* a day filled exactly to the budget by a task and an exam together
DayFilledByTaskAndExam ==
    /\ pc = "validated"
    /\ \E d \in DOMAIN newSchedule :
          /\ newSchedule[d].totalMinutes = studySessionLimitMinutes
          /\ Len(HomeworkSessions(newSchedule[d].sessions)) > 0
          /\ Len(RevisionSessions(newSchedule[d].sessions)) > 0

\* C2: in every schedule returned by generateWeeklySchedule no homework
\* session of a task is dated after that task's deadline date.
NoSessionAfterDeadline ==
    Generated =>
        \A k \in DOMAIN Produced : \A i \in DOMAIN tasks :
            Produced[k].taskId = tasks[i].id =>
                Produced[k].date <= tasks[i].deadline

\* C3: every homework session produced by generateWeeklySchedule called with
\* reference date R is dated on or after R.
NoSessionBeforeReferenceDate ==
    Generated =>
        \A k \in DOMAIN Produced :
            Produced[k].type = "homework" => Produced[k].date >= Format(now)

\* C4: every exam_revision session of an exam with daysUntilExam >= 0 is
\* dated on a day before that exam's date.
RevisionBeforeExam ==
    Generated =>
        \A k \in DOMAIN Produced : \A i \in DOMAIN exams :
            (Produced[k].examId = exams[i].id
               /\ DaysUntil(exams[i].date, start) >= 0) =>
                Produced[k].date < exams[i].date

\* the free minutes of window day `day` when the distribution of exam i
\* started
FreeAtStart(i, day) ==
    studySessionLimitMinutes - usedBefore[i][Format(AddDays(start, day))]

\* the number of candidate days of exam i: clamp(daysUntilExam, 3, 7)
CandidateDayCount(i) ==
    Min(Max(DaysUntil(exams[i].date, start), 3), 7)

RECURSIVE FreeUpTo(_, _)
FreeUpTo(i, day) ==
    IF day < 0 THEN 0 ELSE FreeAtStart(i, day) + FreeUpTo(i, day - 1)

RevisionCount(i) == Len(ExamSessions(Produced, exams[i]))

\* C5 as stated: an exam with daysUntilExam >= 3 whose candidate days
\* together have at least estimatedTime free minutes when its distribution
\* starts gets at least 3 revision sessions.
ThreeSessionsWhenCapacitySuffices ==
    Generated =>
        \A i \in DOMAIN exams :
            (/\ DaysUntil(exams[i].date, start) >= 3
             /\ FreeUpTo(i, CandidateDayCount(i) - 1) >= ExamMinutes(exams[i]))
            => RevisionCount(i) >= 3

ScheduledMinutes(list) == SumDurations(list)

ReportEntries(id) ==
    {k \in DOMAIN validation.unscheduledItems :
        validation.unscheduledItems[k].id = id}

ReportedExactly(id, required, scheduledMinutes) ==
    /\ scheduledMinutes <= required
    /\ (scheduledMinutes < required) <=> (ReportEntries(id) # {})
    /\ Cardinality(ReportEntries(id)) <= 1
    /\ \A k \in ReportEntries(id) :
          /\ validation.unscheduledItems[k].missingMinutes =
                required - scheduledMinutes
          /\ validation.unscheduledItems[k].missingMinutes > 0

\* C6: in a generated schedule validated by the same engine, the durations
\* of the sessions of every task and exam sum to at most its required
\* minutes (estimatedTime, 240 for an exam without one), and the item is in
\* unscheduledItems exactly when the sum is smaller, with missingMinutes =
\* required - scheduled > 0.
ShortfallReportExact ==
    pc = "validated" =>
        /\ \A i \in DOMAIN tasks :
              ReportedExactly(tasks[i].id, tasks[i].estimatedTime,
                  ScheduledMinutes(SelectSeq(Produced,
                      LAMBDA s : s.taskId = tasks[i].id)))
        /\ \A i \in DOMAIN exams :
              ReportedExactly(exams[i].id,
                  IF exams[i].estimatedTime = 0 THEN 240
                  ELSE exams[i].estimatedTime,
                  ScheduledMinutes(SelectSeq(Produced,
                      LAMBDA s : s.examId = exams[i].id)))

\* a task and an exam each scheduled in part, next to a task scheduled in full
PartialShortfallsReported ==
    /\ pc = "validated"
    /\ \E k \in DOMAIN validation.unscheduledItems :
          /\ validation.unscheduledItems[k].type = "homework"
          /\ \E i \in DOMAIN tasks :
                /\ tasks[i].id = validation.unscheduledItems[k].id
                /\ validation.unscheduledItems[k].missingMinutes <
                      tasks[i].estimatedTime
    /\ \E k \in DOMAIN validation.unscheduledItems :
          /\ validation.unscheduledItems[k].type = "exam_revision"
          /\ \E i \in DOMAIN exams :
                /\ exams[i].id = validation.unscheduledItems[k].id
                /\ validation.unscheduledItems[k].missingMinutes <
                      ExamMinutes(exams[i])
    /\ \E i \in DOMAIN tasks : ReportEntries(tasks[i].id) = {}

\* the free minutes, by the sessions handed to rescheduleMissedSession, of
\* the k-th day after the date of the missed session
FreeAfterMissed(k) ==
    studySessionLimitMinutes -
        SumDurations(SelectByDate(resched.existing, resched.missed.date + k))

\* C7: when the free capacity (budget minus the minutes of all existing
\* sessions) of the three days after the missed date sums to at least the
\* missed session's duration, rescheduleMissedSession returns sessions whose
\* durations sum exactly to that duration, all with status 'rescheduled'.
MissedMinutesAllRescheduled ==
    (/\ resched.called
     /\ FreeAfterMissed(1) + FreeAfterMissed(2) + FreeAfterMissed(3)
           >= resched.missed.duration)
    => /\ SumDurations(resched.result) = resched.missed.duration
       /\ \A k \in DOMAIN resched.result :
             resched.result[k].status = "rescheduled"

SourceOf(s) == IF s.type = "homework" THEN s.taskId ELSE s.examId

Triples(list) ==
    {<<list[k].date, SourceOf(list[k]), list[k].duration>> : k \in DOMAIN list}

ProducedBefore == AllSessions(prev.schedule)

\* C8: two runs of generateWeeklySchedule with the same task list, exam
\* list, budget and window start produce the same set of (date, source id,
\* duration) triples.
SameInputsSameTriples ==
    (Generated /\ prev.done /\ prev.tasks = tasks /\ prev.exams = exams
       /\ prev.start = start)
    => Triples(Produced) = Triples(ProducedBefore)

\* two runs over the same tasks and exams whose sessions differ in their ids
SecondRunWithNewIds ==
    /\ pc = "ready"
    /\ prev.done
    /\ prev.exams = exams
    /\ Len(HomeworkSessions(Produced)) > 0
    /\ Len(RevisionSessions(Produced)) > 0
    /\ \A k \in DOMAIN Produced : \A j \in DOMAIN ProducedBefore :
          Produced[k].id # ProducedBefore[j].id

\* C9: every session created by generateWeeklySchedule or by
\* rescheduleMissedSession (applied to a session of the generated week) is
\* dated on one of the 7 dates of that week's window.
SessionsInsideWindow ==
    Generated =>
        /\ \A k \in DOMAIN Produced : Produced[k].date \in WindowDates(start)
        /\ \A k \in DOMAIN resched.result :
              resched.result[k].date \in WindowDates(start)

\* C10: the homework sessions (date, taskId, duration) produced by
\* generateWeeklySchedule are the same for any two exam lists given the same
\* tasks, budget and window start.
HomeworkIndependentOfExams ==
    (Generated /\ prev.done /\ prev.tasks = tasks /\ prev.start = start)
    => Triples(HomeworkSessions(Produced)) =
          Triples(HomeworkSessions(ProducedBefore))

\* two runs, with and without exams, where an exam had filled up a day that
\* also holds homework
ExamsRemovedBetweenRuns ==
    /\ pc = "ready"
    /\ prev.done
    /\ prev.exams # exams
    /\ Len(HomeworkSessions(Produced)) > 1
    /\ \E d \in DOMAIN prev.schedule :
          /\ prev.schedule[d].totalMinutes = studySessionLimitMinutes
          /\ Len(HomeworkSessions(prev.schedule[d].sessions)) > 0
          /\ Len(RevisionSessions(prev.schedule[d].sessions)) > 0

\* the latest generation ran over the tasks of the one before and one more
\* task, added at the end of the input
OneTaskAdded ==
    /\ Generated
    /\ prev.done
    /\ prev.start = start
    /\ Len(engineTasks) = Len(prev.tasks) + 1
    /\ SubSeq(engineTasks, 1, Len(prev.tasks)) = prev.tasks

AddedTask == engineTasks[Len(engineTasks)]

SevenBucketsHoldAllSessions ==
    Generated =>
        /\ Cardinality(DOMAIN newSchedule) = 7
        /\ \E monday \in DOMAIN newSchedule :
              /\ monday % 7 = 0
              /\ monday <= Format(now)
              /\ Format(now) < monday + 7
              /\ DOMAIN newSchedule = monday..(monday + 6)
        /\ \A d \in DOMAIN newSchedule :
              /\ newSchedule[d].date = d
              /\ newSchedule[d].sessions =
                    SelectSeq(sessions, LAMBDA s : s.date = d)
              /\ newSchedule[d].totalMinutes =
                    SumDurations(newSchedule[d].sessions)
        /\ \A k \in DOMAIN sessions : sessions[k].date \in DOMAIN newSchedule

\* a returned week with an empty day and a revision session that pass 2
\* made longer than the daily share of its exam
WeekWithEmptyDayAndLongerSession ==
    /\ Generated
    /\ \E d \in DOMAIN newSchedule : Len(newSchedule[d].sessions) = 0
    /\ \E k \in DOMAIN Produced : \E i \in DOMAIN exams :
          /\ Produced[k].examId = exams[i].id
          /\ ~Produced[k].id.extra
          /\ Produced[k].duration >
                Ceil(ExamMinutes(exams[i]), CandidateDayCount(i))

\* the free minutes of window days 0..day before the coming allocation
RECURSIVE FreeNowUpTo(_)
FreeNowUpTo(day) ==
    IF day < 0 THEN 0
    ELSE (studySessionLimitMinutes -
             sessionTimeUsed[Format(AddDays(start, day))])
         + FreeNowUpTo(day - 1)

\* the sessions added by the step being taken
AddedSessions == SubSeq(sessions', Len(sessions) + 1, Len(sessions'))

\* the step allocates the next task by the earliest-feasible-day rule
TaskAllocatedGreedily ==
    LET task == sortedTasks[ti]
        lastDay == Min(DaysUntil(task.deadline, start), 6)
        added == AddedSessions
    IN /\ \A k \in DOMAIN added :
             /\ added[k].taskId = task.id
             /\ added[k].date \in
                   {Format(AddDays(start, day)) : day \in 0..lastDay}
             /\ added[k].duration > 0
             /\ \A j \in DOMAIN added : j < k => added[j].date < added[k].date
             /\ \A day \in 0..lastDay :
                   Format(AddDays(start, day)) < added[k].date =>
                       sessionTimeUsed'[Format(AddDays(start, day))] =
                           studySessionLimitMinutes
       /\ SumDurations(added) = Min(task.estimatedTime, FreeNowUpTo(lastDay))

\* C13: scheduleTask visits days 0..min(daysUntilDeadline, 6) in ascending
\* order and gives each min(remaining, free): once a task is allocated,
\* every candidate day before one of its sessions is at exactly the daily
\* budget, and its scheduled total is min(estimatedTime, sum of the free
\* minutes of its candidate days).
EarliestFeasibleDay ==
    [][(pc = "generating" /\ ti' = ti + 1) => TaskAllocatedGreedily]_vars

\* a task that took what another task had left of a day and went on to the
\* next day
TaskSpillsFromSharedDay ==
    /\ Generated
    /\ \E k, j, m \in DOMAIN Produced :
          /\ Produced[k].type = "homework"
          /\ Produced[j].type = "homework"
          /\ Produced[k].date = Produced[j].date
          /\ Produced[k].taskId # Produced[j].taskId
          /\ Produced[m].taskId = Produced[k].taskId
          /\ Produced[m].date > Produced[k].date

\* the <<date, duration>> pairs of n sessions on consecutive days from the
\* window start: `share` minutes each, the last one the rest of `minutes`
EvenPairs(minutes, share, n) ==
    {<<Format(AddDays(start, day)), share>> : day \in 0..(n - 2)}
        \cup {<<Format(AddDays(start, n - 1)), minutes - share * (n - 1)>>}

\* every candidate day of exam i had its daily share free when the
\* distribution of the exam started
ShareFreeEveryDay(i) ==
    \A day \in 0..(CandidateDayCount(i) - 1) :
        FreeAtStart(i, day) >=
            Ceil(ExamMinutes(exams[i]), CandidateDayCount(i))

\* C14: with n = clamp(daysUntilExam, 3, 7) and share = ceil(E / n), when
\* every day 0..n-1 has at least share free minutes, the exam gets sessions
\* on consecutive days from day 0, each of exactly share minutes except the
\* last, which takes the remainder; they sum to E and pass 2 adds nothing.
EvenDistribution ==
    Generated =>
        \A i \in DOMAIN exams :
            ShareFreeEveryDay(i) =>
                LET minutes == ExamMinutes(exams[i])
                    share == Ceil(minutes, CandidateDayCount(i))
                    mine == SelectSeq(Produced,
                                LAMBDA s : s.examId = exams[i].id)
                IN /\ Len(mine) = Ceil(minutes, share)
                   /\ {<<mine[k].date, mine[k].duration>> :
                          k \in DOMAIN mine} =
                         EvenPairs(minutes, share, Ceil(minutes, share))
                   /\ SumDurations(mine) = minutes
                   /\ \A k \in DOMAIN mine : ~mine[k].id.extra

\* an exam 5 days ahead given 5 sessions of 48 minutes on days that a task
\* had used in part
FiveEvenSessionsBesideTask ==
    /\ Generated
    /\ \E i \in DOMAIN exams :
          /\ ShareFreeEveryDay(i)
          /\ CandidateDayCount(i) = 5
          /\ RevisionCount(i) = 5
          /\ \E day \in 0..4 : FreeAtStart(i, day) < studySessionLimitMinutes

\* the free minutes of the k-th day after the missed date, none when the
\* date holds the budget or more
PositiveFreeAfterMissed(k) == Max(FreeAfterMissed(k), 0)

\* the minutes due to the k-th day after the missed date when the three
\* days are filled in order
DueAfterMissed(k) ==
    LET first == Min(resched.missed.duration, PositiveFreeAfterMissed(1))
        second == Min(resched.missed.duration - first,
                      PositiveFreeAfterMissed(2))
        third == Min(resched.missed.duration - first - second,
                     PositiveFreeAfterMissed(3))
    IN <<first, second, third>>[k]

ReturnedOn(date) == SelectByDate(resched.result, date)

\* C15: rescheduleMissedSession fills day+1, day+2, day+3 in that order,
\* each with min(remaining, budget - minutes already on that date) when
\* that is positive; the returned durations sum to min(missed duration, sum
\* of the positive free amounts of the three days); what does not fit is
\* dropped and the result is empty when none of the three days is free.
NextThreeDaysFilledInOrder ==
    resched.called =>
        /\ \A k \in 1..3 :
              /\ SumDurations(ReturnedOn(resched.missed.date + k)) =
                    DueAfterMissed(k)
              /\ Len(ReturnedOn(resched.missed.date + k)) =
                    IF DueAfterMissed(k) > 0 THEN 1 ELSE 0
        /\ SumDurations(resched.result) =
              Min(resched.missed.duration,
                  PositiveFreeAfterMissed(1) + PositiveFreeAfterMissed(2)
                      + PositiveFreeAfterMissed(3))

\* C16: a task whose deadline is before the window start gets no session
\* (it consumes no capacity); validateSchedule reports it in
\* unscheduledItems with missingMinutes equal to its full estimatedTime, and
\* noDeadlineViolations is false.
PastTaskLeftOutAndReported ==
    pc = "validated" =>
        \A i \in DOMAIN engineTasks :
            engineTasks[i].deadline < Format(start) =>
                /\ \A k \in DOMAIN Produced :
                      Produced[k].taskId # engineTasks[i].id
                /\ \E k \in DOMAIN validation.unscheduledItems :
                      /\ validation.unscheduledItems[k].id = engineTasks[i].id
                      /\ validation.unscheduledItems[k].missingMinutes =
                            engineTasks[i].estimatedTime
                /\ ~validation.details.noDeadlineViolations

\* C17: every session returned by rescheduleMissedSession is dated
\* missedDate + 1, + 2 or + 3 (never the missed date, never later), at most
\* one session per date, and keeps the type and the task or exam reference
\* of the missed session.
RescheduledAfterMissedDate ==
    resched.called =>
        \A k \in DOMAIN resched.result :
            /\ resched.result[k].date \in
                  (resched.missed.date + 1)..(resched.missed.date + 3)
            /\ \A j \in DOMAIN resched.result :
                  j # k => resched.result[j].date # resched.result[k].date
            /\ resched.result[k].type = resched.missed.type
            /\ resched.result[k].taskId = resched.missed.taskId
            /\ resched.result[k].examId = resched.missed.examId

\* the dates of a list of sessions
DatesOf(list) == {list[k].date : k \in DOMAIN list}

StoredAsMissed(sessionId) ==
    /\ \E j \in DOMAIN db :
          db[j].id = sessionId /\ db[j].status # "missed"
    /\ \E j \in DOMAIN db' :
          db'[j].id = sessionId /\ db'[j].status = "missed"

\* C19: whenever a session is marked 'missed' through the application (the
\* Dashboard status handler or the hook's updateSessionStatus),
\* rescheduleMissedSession is run for that session and the sessions it
\* returns are stored before the operation completes.
MissedSessionAlwaysRescheduled ==
    [][\A sessionId \in {db[j].id : j \in DOMAIN db} :
          StoredAsMissed(sessionId) =>
              /\ resched'.called
              /\ resched'.missed.id = sessionId
              /\ \A k \in DOMAIN resched'.result :
                    \E j \in DOMAIN db' : db'[j] = resched'.result[k]]_vars

\* the input of the generation is invalid: a budget outside 60..960 or a
\* task whose estimatedTime is not positive
InvalidInput ==
    \/ studySessionLimitMinutes < 60
    \/ studySessionLimitMinutes > 960
    \/ \E i \in DOMAIN tasks : tasks[i].estimatedTime <= 0

\* C20: a schedule generation requested with a daily budget outside 60..960
\* minutes, or with a task whose estimatedTime is not positive, is rejected
\* before any session is allocated or saved.
InvalidInputRejected ==
    InvalidInput =>
        /\ pc = "idle"
        /\ sessions = <<>>
        /\ newSchedule = <<>>
        /\ db = <<>>

OneSessionPerDateAndSource ==
    Generated =>
        \A k, j \in DOMAIN Produced :
            (/\ Produced[k].date = Produced[j].date
             /\ SourceOf(Produced[k]) = SourceOf(Produced[j]))
            => k = j

\* an exam session that pass 2 made longer, on a day that also holds a
\* session of a task split over two days
LongerSessionBesideSplitTask ==
    /\ Generated
    /\ \E k, j, m \in DOMAIN Produced : \E i \in DOMAIN exams :
          /\ Produced[k].examId = exams[i].id
          /\ Produced[k].duration >
                Ceil(ExamMinutes(exams[i]), CandidateDayCount(i))
          /\ Produced[j].type = "homework"
          /\ Produced[j].date = Produced[k].date
          /\ Produced[m].taskId = Produced[j].taskId
          /\ Produced[m].date # Produced[j].date

\* the tracker as it was when the distribution of exam i ended
UsedAfter(i) ==
    IF i < Len(usedBefore) THEN usedBefore[i + 1] ELSE sessionTimeUsed

\* the exam was left with fewer minutes than it requires
ExamShort(i) ==
    SumDurations(ExamSessions(sessions, exams[i])) < ExamMinutes(exams[i])

\* C23: an exam (upcoming, as the Dashboard passes them) is left with a
\* shortfall only when its days are exhausted: when after both passes its
\* scheduled minutes are fewer than its required minutes, every day
\* 0..min(daysToUse, 7) - 1 is at exactly the daily budget at the end of
\* that exam's distribution.
ShortfallOnlyWhenDaysFull ==
    \A i \in 1..Len(usedBefore) :
        ExamShort(i) =>
            \A day \in 0..(Min(CandidateDayCount(i), 7) - 1) :
                UsedAfter(i)[Format(AddDays(start, day))] =
                    studySessionLimitMinutes

\* an exam left short after pass 2 had added to its sessions, while a day
\* after its candidate days stays empty
ShortExamAfterSecondPass ==
    /\ Generated
    /\ \E i \in 1..Len(usedBefore) :
          /\ ExamShort(i)
          /\ \E k \in DOMAIN sessions :
                /\ sessions[k].examId = exams[i].id
                /\ sessions[k].duration >
                      Ceil(ExamMinutes(exams[i]), CandidateDayCount(i))
          /\ \E day \in CandidateDayCount(i)..6 :
                sessionTimeUsed[Format(AddDays(start, day))] = 0

\* the minutes the step adds on a date, by the tracker
AddedOn(date) == sessionTimeUsed'[date] - sessionTimeUsed[date]

\* the step leaves every session created before as it was, and what it
\* adds to the tracker on a date is the duration of the one session it
\* creates for the exam on that date
OnlyOwnSessionsTouched ==
    /\ Len(sessions') >= Len(sessions)
    /\ SubSeq(sessions', 1, Len(sessions)) = sessions
    /\ \A k \in DOMAIN AddedSessions :
          /\ AddedSessions[k].examId = exams[ei].id
          /\ AddedSessions[k].duration = AddedOn(AddedSessions[k].date)
    /\ \A date \in WindowDates(start) :
          AddedOn(date) > 0 => Len(SelectByDate(AddedSessions, date)) = 1

\* C24: in pass 2 the session whose duration is increased always belongs
\* to the exam being distributed (matching by date alone is matching by
\* date and exam): in a generation with several tasks and exams sharing
\* days, no session of a task or of another exam has its duration changed
\* after it was created.
SecondPassChangesOwnSession ==
    [][(pc = "generating" /\ ei' = ei + 1) => OnlyOwnSessionsTouched]_vars

\* a day shared by a task and two exams, both exams with a session that
\* pass 2 made longer
TwoLongerSessionsBesideTask ==
    /\ Generated
    /\ Len(exams) = 2
    /\ \E k, j, m \in DOMAIN Produced :
          /\ Produced[m].type = "homework"
          /\ Produced[k].date = Produced[m].date
          /\ Produced[j].date = Produced[m].date
          /\ Produced[k].examId = exams[1].id
          /\ Produced[j].examId = exams[2].id
          /\ Produced[k].duration >
                Ceil(ExamMinutes(exams[1]), CandidateDayCount(1))
          /\ Produced[j].duration >
                Ceil(ExamMinutes(exams[2]), CandidateDayCount(2))

\* C25: every session created by generateWeeklySchedule or by
\* rescheduleMissedSession has a duration of at least 1 minute (estimated
\* times, missed duration and budget being positive integers): no session
\* of 0 minutes is created, days without free capacity included.
DurationsAtLeastOne ==
    /\ \A k \in DOMAIN sessions : sessions[k].duration >= 1
    /\ Generated => \A k \in DOMAIN Produced : Produced[k].duration >= 1
    /\ \A k \in DOMAIN resched.result : resched.result[k].duration >= 1
    /\ \A k \in DOMAIN db : db[k].duration >= 1

\* a task that found day 0 full and began a day later, and a missed
\* session moved past a first target date that was full
FullDaysSkipped ==
    /\ Generated
    /\ \E k \in DOMAIN Produced :
          /\ Produced[k].type = "homework"
          /\ Produced[k].id.day > 0
          /\ \A j \in DOMAIN Produced :
                Produced[j].taskId = Produced[k].taskId =>
                    Produced[j].date >= Produced[k].date
    /\ resched.called
    /\ Len(resched.result) > 0
    /\ UsedOrZero(CalculateSessionTimeUsed(resched.existing),
                  TargetDate(NewDate(resched.missed.date), 1))
          >= studySessionLimitMinutes

\* the <<id, date, duration>> of the sessions of a schedule
SnapshotOf(sched) ==
    {<<AllSessions(sched)[k].id, AllSessions(sched)[k].date,
       AllSessions(sched)[k].duration>> : k \in DOMAIN AllSessions(sched)}

\* two calls of the handler, for different sessions, have both completed
\* after rescheduling from the same sessions
TwoOverlappingMarksDone ==
    /\ Cardinality(handlers) = 2
    /\ \A h \in handlers : h.stage = "done"
    /\ \A h, g \in handlers :
          /\ h # g => h.sessionId # g.sessionId
          /\ SnapshotOf(h.schedule) = SnapshotOf(g.schedule)

\* C26: when handleSessionStatusChange is started for two different
\* sessions before the first has reloaded the schedule (both reschedule
\* from the same sessions), then after both have completed the stored
\* sessions of no date sum to more than the daily budget.
OverlappingMarksKeepBudget ==
    TwoOverlappingMarksDone =>
        \A date \in DatesOf(db) :
            SumDurations(SelectByDate(db, date)) <= studySessionLimitMinutes

\* what validateSchedule reported on the generated schedule
FirstReport ==
    ValidateSchedule(newSchedule, engineTasks, exams,
                     studySessionLimitMinutes).unscheduledItems

\* C27: shortfalls are not hidden by rescheduling: an item reported with
\* missingMinutes m > 0 on the generated schedule is, after any sequence of
\* sessions marked missed and rescheduled, still reported by the
\* validateSchedule of the reload, with missingMinutes >= m.
ShortfallsNotHidden ==
    (pc = "ready" /\ resched.called /\ Len(resched.result) > 0) =>
        \A k \in DOMAIN FirstReport :
            \E j \in DOMAIN validation.unscheduledItems :
                /\ validation.unscheduledItems[j].id = FirstReport[k].id
                /\ validation.unscheduledItems[j].missingMinutes >=
                      FirstReport[k].missingMinutes

\* the sessions that are not missed
Live(list) == SelectSeq(list, LAMBDA s : s.status # "missed")

\* the live minutes of every task and exam are within its required minutes
LiveWithinRequired(list) ==
    /\ \A i \in DOMAIN tasks :
          SumDurations(Live(TaskSessions(list, tasks[i])))
              <= tasks[i].estimatedTime
    /\ \A i \in DOMAIN exams :
          SumDurations(Live(ExamSessions(list, exams[i])))
              <= ExamMinutes(exams[i])

StoredBefore ==
    IF prev.done THEN SetDocs(<<>>, AllSessions(prev.schedule)) ELSE <<>>

\* C29: saveSchedule is all-or-nothing for the user's week: when it fails
\* at any step the sessions stored before are unchanged, and when it
\* succeeds the stored sessions are exactly the new ones.
SaveAllOrNothing ==
    /\ pc = "failed" => db = StoredBefore
    /\ pc = "ready" => db = SetDocs(<<>>, AllSessions(newSchedule))

\* the tracker holds, for each of the 7 window dates, the minutes of the
\* sessions created so far on the date, within 0..budget
TrackerMatchesSessions(used, list) ==
    /\ DOMAIN used = WindowDates(start)
    /\ Cardinality(DOMAIN used) = 7
    /\ \A date \in DOMAIN used :
          /\ used[date] = SumDurations(SelectByDate(list, date))
          /\ used[date] >= 0
          /\ used[date] <= studySessionLimitMinutes

\* C30: at every step of generateWeeklySchedule, for each of the 7 window
\* dates, sessionTimeUsed[date] is the sum of the durations of the sessions
\* created so far on that date (the in-place increases of pass 2
\* included), never decreases, and stays within 0..budget.
CapacityMapConsistent ==
    [][pc = "generating" =>
          /\ TrackerMatchesSessions(sessionTimeUsed, sessions)
          /\ TrackerMatchesSessions(sessionTimeUsed', sessions')
          /\ \A date \in DOMAIN sessionTimeUsed :
                sessionTimeUsed'[date] >= sessionTimeUsed[date]]_vars

\* in the middle of a generation: the first exam has a session that pass 2
\* made longer, on a day that holds a task, and an exam is still to come
MidGenerationAfterSecondPass ==
    /\ pc = "generating"
    /\ ei = 2
    /\ Len(exams) = 2
    /\ \E k, j \in DOMAIN sessions :
          /\ sessions[k].examId = exams[1].id
          /\ sessions[k].duration >
                Ceil(ExamMinutes(exams[1]), CandidateDayCount(1))
          /\ sessions[j].type = "homework"
          /\ sessions[j].date = sessions[k].date

====
